---- MODULE Spec2Model ----
(***************************************************************************)
(* Model of src/main.py: the ImageAnalyzerThread worker (run,              *)
(* analyze_image, get_additional_info) and the ImageAnalyzer window        *)
(* (select_folder, select_files, update_progress, update_table,            *)
(* show_image) connected by queued Qt signals.                             *)
(***************************************************************************)
EXTENDS Integers, Sequences, FiniteSets, TLC

\* ------------------------------------------------------------------------
\* Bounds
\* ------------------------------------------------------------------------
MaxWork == 4        \* paths plus batches the user submits in one behaviour
MaxRunLen == 50     \* paths in the batch of the isolated worker run

\* ------------------------------------------------------------------------
\* Python float arithmetic of  int((i + 1) / total_files * 100)
\* A double is kept as the bit sequence (most significant bit first) of its
\* significand; the bits are produced and consumed ChunkBits at a time, so
\* every intermediate integer stays small.
\* ------------------------------------------------------------------------
MantBits == 53      \* significand bits of an IEEE 754 double
ChunkBits == 9
ChunkBase == 512    \* 2^ChunkBits
DivChunks == 6      \* 54 fraction bits: 52 of the significand, guard, sticky

RECURSIVE ScaleExp(_, _)
\* least e with k * 2^e >= n   (k >= 1)
ScaleExp(k, n) == IF k >= n THEN 0 ELSE 1 + ScaleExp(2 * k, n)

RECURSIVE Pow2(_)
Pow2(e) == IF e = 0 THEN 1 ELSE 2 * Pow2(e - 1)

Zeros(n) == [j \in 1..n |-> 0]

\* the ChunkBits bits of d < ChunkBase
ChunkToBits(d) == [j \in 1..ChunkBits |-> (d \div Pow2(ChunkBits - j)) % 2]

\* the value of the ChunkBits bits of bits that end at position last
ChunkValue(bits, last) ==
      bits[last - 8] * 256 + bits[last - 7] * 128 + bits[last - 6] * 64
    + bits[last - 5] * 32 + bits[last - 4] * 16 + bits[last - 3] * 8
    + bits[last - 2] * 4 + bits[last - 1] * 2 + bits[last]

RECURSIVE LongDiv(_, _, _, _)
\* cnt chunks of the fraction bits of r / n (r < n), then <<bits, remainder>>
LongDiv(r, n, cnt, acc) ==
    IF Len(acc) = cnt * ChunkBits THEN <<acc, r>>
    ELSE LongDiv((r * ChunkBase) % n, n, cnt,
                 acc \o ChunkToBits((r * ChunkBase) \div n))

\* bits + 1 (the sequence grows by one bit on carry out)
IncBits(bits) ==
    LET n == Len(bits)
        zs == {j \in 1..n : bits[j] = 0}
    IN  IF zs = {} THEN <<1>> \o Zeros(n)
        ELSE LET z == CHOOSE j \in zs : \A h \in zs : h <= j
             IN  [j \in 1..n |-> IF j < z THEN bits[j] ELSE IF j = z THEN 1 ELSE 0]

StripZeros(bits) ==
    LET ones == {j \in 1..Len(bits) : bits[j] = 1}
    IN  IF ones = {} THEN <<>>
        ELSE SubSeq(bits, CHOOSE j \in ones : \A h \in ones : j <= h, Len(bits))

\* round-to-nearest-even of an integer given by its bits to MantBits
\* significant bits; the result keeps the unit of the argument
RoundNearestEven(bits, sticky) ==
    LET n == Len(bits)
    IN  IF n <= MantBits THEN bits
        ELSE LET top   == SubSeq(bits, 1, MantBits)
                 guard == bits[MantBits + 1]
                 rest  == sticky \/ (\E j \in (MantBits + 2)..n : bits[j] = 1)
                 up    == guard = 1 /\ (rest \/ top[MantBits] = 1)
             IN  (IF up THEN IncBits(top) ELSE top) \o Zeros(n - MantBits)

RECURSIVE MulSmall(_, _, _, _)
\* bits * m for a small m, a chunk at a time from the least significant
\* one with a carry (Len(bits) is a multiple of ChunkBits); acc holds the
\* product bits already produced
MulSmall(bits, m, carry, acc) ==
    IF bits = <<>> THEN ChunkToBits(carry) \o acc
    ELSE LET n == Len(bits)
             t == ChunkValue(bits, n) * m + carry
         IN  MulSmall(SubSeq(bits, 1, n - ChunkBits), m, t \div ChunkBase,
                      ChunkToBits(t % ChunkBase) \o acc)

RECURSIVE BitsToNat(_)
BitsToNat(bits) ==
    IF bits = <<>> THEN 0
    ELSE 2 * BitsToNat(SubSeq(bits, 1, Len(bits) - 1)) + bits[Len(bits)]

\* the double nearest to k / n (1 <= k <= n), as <<bits, f>>: the value is
\* the integer of the bits times 2^-f
FloatDiv(k, n) ==
    LET e == ScaleExp(k, n)
        d == LongDiv(k * Pow2(e) - n, n, DivChunks, <<>>)
    IN  <<RoundNearestEven(<<1>> \o d[1], d[2] # 0), DivChunks * ChunkBits + e>>

\* int(x * 100) for the double x = FloatDiv(k, n)
FloatMul100Int(x) ==
    LET pad  == (ChunkBits - (Len(x[1]) % ChunkBits)) % ChunkBits
        prod == RoundNearestEven(
                    StripZeros(MulSmall(Zeros(pad) \o x[1], 100, 0, <<>>)), FALSE)
    IN  IF Len(prod) <= x[2] THEN 0
        ELSE BitsToNat(SubSeq(prod, 1, Len(prod) - x[2]))

\* int(k / n * 100) for every batch size and every position in the batch
ProgressTable ==
    [n \in 1..MaxRunLen |-> [k \in 1..n |-> FloatMul100Int(FloatDiv(k, n))]]

\* variant that counts the paths completed before the current one
ProgressValueOffByOne(i, total_files) ==
    IF i = 0 THEN 0 ELSE ProgressTable[total_files][i]

\* variant that rounds to the nearest integer instead of truncating
ProgressValueRounded(i, total_files) ==
    (200 * (i + 1) + total_files) \div (2 * total_files)

\* src/main.py:26   int((i + 1) / total_files * 100), i counted from 0
ProgressValue(i, total_files) == ProgressTable[total_files][i + 1]

\* ------------------------------------------------------------------------
\* The files the user can select.  A path is an index into FileSys.
\*   opens  : Image.open(file_path) succeeds
\*   exif   : piexif.load(img.info["exif"]) succeeds           (JPEG)
\*   colors : len(img.getcolors()), NoColors when getcolors() returns None
\* ------------------------------------------------------------------------
None == "None"
NoColors == -1

FileSys ==
    << [filename |-> "a.png", ext |-> "png", opens |-> TRUE,  format |-> "PNG",
        mode |-> "RGB", exif |-> FALSE, colors |-> 7],
       [filename |-> "d.PNG", ext |-> "PNG", opens |-> FALSE, format |-> None,
        mode |-> None,  exif |-> FALSE, colors |-> NoColors],
       [filename |-> "b.jpg", ext |-> "jpg", opens |-> TRUE,  format |-> "JPEG",
        mode |-> "L",   exif |-> FALSE, colors |-> NoColors],
       [filename |-> "c.gif", ext |-> "gif", opens |-> TRUE,  format |-> "GIF",
        mode |-> "P",   exif |-> FALSE, colors |-> NoColors],
       [filename |-> "e.txt", ext |-> "txt", opens |-> FALSE, format |-> None,
        mode |-> None,  exif |-> FALSE, colors |-> NoColors] >>

Paths == 1..Len(FileSys)

\* order of the file names as QTableWidgetItem compares them
NameOrder == <<"a.png", "b.jpg", "c.gif", "d.PNG", "e.txt">>
Rank(name) == CHOOSE j \in 1..Len(NameOrder) : NameOrder[j] = name

\* f.lower() restricted to the extensions of FileSys
Lower(ext) == IF ext = "PNG" THEN "png" ELSE ext

ImageExts == {"jpg", "jpeg", "png", "gif", "bmp", "tiff", "pcx"}

\* src/main.py:295-297   the list comprehension of select_folder
RECURSIVE FilterImages(_)
FilterImages(listing) ==
    IF listing = <<>> THEN <<>>
    ELSE IF Lower(FileSys[Head(listing)].ext) \in ImageExts
         THEN <<Head(listing)>> \o FilterImages(Tail(listing))
         ELSE FilterImages(Tail(listing))

\* the subsequences of a listing: what a dialog can return from it
RECURSIVE SubSeqs(_)
SubSeqs(listing) ==
    IF listing = <<>> THEN {<<>>}
    ELSE LET rest == SubSeqs(Tail(listing))
         IN  rest \cup {<<Head(listing)>> \o q : q \in rest}

\* the directory: every file, in the order os.listdir and the dialog give
Listing == [j \in Paths |-> j]

\* src/main.py:295-297   what select_folder can hand to the thread
FolderLists == {FilterImages(listing) : listing \in SubSeqs(Listing)}

\* src/main.py:304-306   what select_files can hand to the thread: the
\* dialog shows image files only, and an empty selection starts nothing
FileLists == {list \in SubSeqs(Listing) : list # <<>> /\ FilterImages(list) = list}

\* ------------------------------------------------------------------------
\* ImageAnalyzerThread
\* ------------------------------------------------------------------------
\* src/main.py:58-60
get_color_depth(mode) ==
    IF mode = "1" THEN "1 bit (B&W)"
    ELSE IF mode = "L" THEN "8 bit (Grayscale)"
    ELSE IF mode = "RGB" THEN "24 bit"
    ELSE IF mode = "RGBA" THEN "32 bit"
    ELSE "Unknown"

\* src/main.py:68-79   len(None) raises TypeError in the GIF branch
get_additional_info(f) ==
    IF f.format = "JPEG"
    THEN IF f.exif THEN [raised |-> FALSE, value |-> <<"EXIF data: ", f.colors>>]
         ELSE [raised |-> FALSE, value |-> <<"No EXIF data">>]
    ELSE IF f.format = "GIF"
    THEN IF f.colors # NoColors
         THEN [raised |-> FALSE, value |-> <<"Palette colors: ", f.colors>>]
         ELSE [raised |-> TRUE, value |-> <<>>]
    ELSE IF f.format = "PNG"
    THEN IF f.colors # NoColors
         THEN [raised |-> FALSE, value |-> <<"Colors: ", f.colors>>]
         ELSE [raised |-> FALSE, value |-> <<"Colors: ", "More than 256">>]
    ELSE [raised |-> FALSE, value |-> <<"">>]

NoRecord ==
    [filename |-> None, format |-> None, color_depth |-> None,
     additional_info |-> <<>>, file_path |-> 0]

\* src/main.py:28-55   raised: the except branch at line 54 ran and nothing
\* was emitted; otherwise data is the emitted list
analyze_image(file_path) ==
    LET f == FileSys[file_path]
        additional_info == get_additional_info(f)
    IN  IF ~f.opens \/ additional_info.raised
        THEN [raised |-> TRUE, data |-> NoRecord]
        ELSE [raised |-> FALSE,
              data |-> [filename |-> f.filename, format |-> f.format,
                        color_depth |-> get_color_depth(f.mode),
                        additional_info |-> additional_info.value,
                        file_path |-> file_path]]

\* ------------------------------------------------------------------------
\* State
\* ------------------------------------------------------------------------
VARIABLES
    threads,          \* the ImageAnalyzerThread objects started so far:
                      \* file_paths, loop index i, position pc
    queue,            \* queued signal emissions not yet handled by the GUI thread
    rows,             \* self.table: per row the item of column 0 and of columns 1..11
    file_paths,       \* self.file_paths: row index -> path
    sortOrder,        \* sort indicator order of column 0 of the table
    progressVisible,  \* self.progress_bar.isVisible()
    progressValue,    \* self.progress_bar.value()
    preview,          \* image_label / info_label as set by show_image
    emitted,          \* history: per thread the signals it emitted
    handled           \* history: per thread the signals the GUI thread handled

vars == <<threads, queue, rows, file_paths, sortOrder, progressVisible,
          progressValue, preview, emitted, handled>>

\* self.thread is the last element of threads
Batches == 1..Len(threads)

NoItem == [b |-> 0, rec |-> NoRecord]
NoRow == [c0 |-> NoItem, rest |-> NoItem]

\* variant in which a thread with nothing to do never reports
NewThreadSilentWhenEmpty(list) ==
    [file_paths |-> list, i |-> 0,
     pc |-> IF list = <<>> THEN "done" ELSE "analyze"]

\* src/main.py:18-20 and QThread.start(): run() begins at the loop head
NewThread(list) ==
    [file_paths |-> list, i |-> 0,
     pc |-> IF list = <<>> THEN "finish" ELSE "analyze"]

\* src/main.py:83-95, 145-179   (QHeaderView starts with the sort indicator
\* on section 0 in descending order; setSortingEnabled(True) keeps it)
Init ==
    /\ threads = <<>>
    /\ queue = <<>>
    /\ rows = <<>>
    /\ file_paths = <<>>
    /\ sortOrder = "desc"
    /\ progressVisible = FALSE
    /\ progressValue = 0
    /\ preview = [image |-> 0, report |-> NoRow]
    /\ emitted = <<>>
    /\ handled = <<>>

ImagePaths == {q \in Paths : Lower(FileSys[q].ext) \in ImageExts}

\* the isolated worker: one thread constructed on a list of n paths
InitRun ==
    /\ \E n \in 1..MaxRunLen : \E p \in ImagePaths :
          threads = <<NewThread([j \in 1..n |-> p])>>
    /\ queue = <<>>
    /\ rows = <<>>
    /\ file_paths = <<>>
    /\ sortOrder = "desc"
    /\ progressVisible = TRUE
    /\ progressValue = 0
    /\ preview = [image |-> 0, report |-> NoRow]
    /\ emitted = <<<<>>>>
    /\ handled = <<<<>>>>

\* variant that puts the emission in front of the pending ones
EmitInFront(b, ev) ==
    /\ queue' = <<ev>> \o queue
    /\ emitted' = [emitted EXCEPT ![b] = Append(@, ev)]

\* signal.emit across threads: a queued connection appends the call to the
\* event queue of the GUI thread
Emit(b, ev) ==
    /\ queue' = Append(queue, ev)
    /\ emitted' = [emitted EXCEPT ![b] = Append(@, ev)]

GuiVars == <<rows, file_paths, sortOrder, progressVisible, progressValue,
             preview, handled>>

\* ------------------------------------------------------------------------
\* Worker steps
\* ------------------------------------------------------------------------
\* variant in which an exception of analyze_image ends run()
AnalyzeImageAborting(b) ==
    LET t == threads[b]
        res == analyze_image(t.file_paths[t.i + 1])
    IN  /\ t.pc = "analyze"
        /\ threads' = [threads EXCEPT ![b].pc = IF res.raised THEN "finish" ELSE "progress"]
        /\ IF res.raised
           THEN UNCHANGED <<queue, emitted>>
           ELSE Emit(b, [type |-> "update_table", b |-> b, data |-> res.data, value |-> 0])
        /\ UNCHANGED GuiVars

\* src/main.py:25   self.analyze_image(file_path)
AnalyzeImage(b) ==
    LET t == threads[b]
        res == analyze_image(t.file_paths[t.i + 1])
    IN  /\ t.pc = "analyze"
        /\ threads' = [threads EXCEPT ![b].pc = "progress"]
        /\ IF res.raised
           THEN UNCHANGED <<queue, emitted>>
           ELSE Emit(b, [type |-> "update_table", b |-> b, data |-> res.data, value |-> 0])
        /\ UNCHANGED GuiVars

\* src/main.py:26   self.update_progress.emit(...), then the next iteration
EmitProgress(b) ==
    LET t == threads[b]
        total_files == Len(t.file_paths)
    IN  /\ t.pc = "progress"
        /\ Emit(b, [type |-> "update_progress", b |-> b, data |-> NoRecord,
                    value |-> ProgressValue(t.i, total_files)])
        /\ threads' = [threads EXCEPT ![b].i = t.i + 1,
                          ![b].pc = IF t.i + 1 < total_files THEN "analyze" ELSE "finish"]
        /\ UNCHANGED GuiVars

\* run() returned: QThread emits finished
Finish(b) ==
    /\ threads[b].pc = "finish"
    /\ Emit(b, [type |-> "finished", b |-> b, data |-> NoRecord, value |-> 0])
    /\ threads' = [threads EXCEPT ![b].pc = "done"]
    /\ UNCHANGED GuiVars

\* ------------------------------------------------------------------------
\* ImageAnalyzer (GUI thread)
\* ------------------------------------------------------------------------
Key(row) == Rank(row.c0.rec.filename)

\* QTableModel sorted insertion / sort of column 0: the position of an item
\* with key k among rows already in order, after the items that compare equal
SortedRow(rs, k, order) ==
    LET before(j) == IF order = "asc" THEN Key(rs[j]) <= k ELSE Key(rs[j]) >= k
    IN  Cardinality({j \in 1..Len(rs) : \A h \in 1..j : before(h)})

InsertAt(rs, pos, row) ==
    SubSeq(rs, 1, pos) \o <<row>> \o SubSeq(rs, pos + 1, Len(rs))

RECURSIVE SortRows(_, _, _)
\* stable sort of the rows by the item of column 0
SortRows(rs, order, acc) ==
    IF rs = <<>> THEN acc
    ELSE SortRows(Tail(rs), order,
                  InsertAt(acc, SortedRow(acc, Key(Head(rs)), order), Head(rs)))

RECURSIVE Work(_)
\* paths plus batches submitted so far
Work(ts) == IF ts = <<>> THEN 0 ELSE Len(Head(ts).file_paths) + 1 + Work(Tail(ts))

\* src/main.py:292-301 and 307-314, once the dialog returned a selection.
\* Assigning self.thread does not stop the thread started before: it keeps
\* running and its three signals stay connected to the same slots.
StartBatch(list) ==
    /\ Work(threads) + Len(list) + 1 <= MaxWork
    /\ progressVisible' = TRUE
    /\ rows' = <<>>
    /\ file_paths' = <<>>
    /\ threads' = Append(threads, NewThread(list))
    /\ emitted' = Append(emitted, <<>>)
    /\ handled' = Append(handled, <<>>)
    /\ UNCHANGED <<queue, sortOrder, progressValue, preview>>

\* src/main.py:289-301
select_folder == \E list \in FolderLists : StartBatch(list)

\* src/main.py:303-314
select_files == \E list \in FileLists : StartBatch(list)

\* src/main.py:316-317
update_progress(value) ==
    /\ progressValue' = value
    /\ UNCHANGED <<rows, file_paths, progressVisible>>

\* src/main.py:319-324   with sorting enabled, setItem on the sort column
\* (column 0) moves the row to its sorted position; the items of columns
\* 1..11 are then set at index row, and file_paths[row] is the new path
update_table(b, data) ==
    LET row   == Len(rows)                      \* 0-based index of the new row
        item  == [b |-> b, rec |-> data]
        moved == InsertAt(rows, SortedRow(rows, Rank(data.filename), sortOrder),
                          [c0 |-> item, rest |-> NoItem])
    IN  /\ rows' = [moved EXCEPT ![row + 1].rest = item]
        /\ file_paths' = Append(file_paths, data.file_path)
        /\ UNCHANGED <<progressVisible, progressValue>>

\* src/main.py:300, 313   the lambda connected to finished
on_finished ==
    /\ progressVisible' = FALSE
    /\ UNCHANGED <<rows, file_paths, progressValue>>

\* one iteration of the Qt event loop: the oldest queued emission is
\* delivered to its slot
HandleEvent ==
    /\ queue # <<>>
    /\ LET ev == Head(queue)
       IN  /\ CASE ev.type = "update_table"    -> update_table(ev.b, ev.data)
                [] ev.type = "update_progress" -> update_progress(ev.value)
                [] ev.type = "finished"        -> on_finished
           /\ handled' = [handled EXCEPT ![ev.b] = Append(@, ev)]
    /\ queue' = Tail(queue)
    /\ UNCHANGED <<threads, sortOrder, preview, emitted>>

\* the user clicks the header of column 0 (setSortingEnabled(True), line
\* 179): the order flips and the rows are sorted; file_paths is not touched
ClickHeader ==
    /\ rows # <<>>
    /\ sortOrder' = IF sortOrder = "asc" THEN "desc" ELSE "asc"
    /\ rows' = SortRows(rows, sortOrder', <<>>)
    /\ UNCHANGED <<threads, queue, file_paths, progressVisible,
                   progressValue, preview, emitted, handled>>

\* src/main.py:326-347   the user selects row r (1-based here); a row whose
\* items of columns 1..11 are missing makes item(...).text() raise
show_image(r) ==
    /\ r \in 1..Len(rows)
    /\ preview' = IF rows[r].rest.b = 0
                  THEN [image |-> -1, report |-> preview.report]
                  ELSE [image |-> file_paths[r], report |-> rows[r]]
    /\ UNCHANGED <<threads, queue, rows, file_paths, sortOrder,
                   progressVisible, progressValue, emitted, handled>>

Next ==
    \/ select_folder
    \/ select_files
    \/ \E b \in Batches : AnalyzeImage(b)
    \/ \E b \in Batches : EmitProgress(b)
    \/ \E b \in Batches : Finish(b)
    \/ HandleEvent

Spec == Init /\ [][Next]_vars

NextTable ==
    \/ Next
    \/ ClickHeader
    \/ \E r \in 1..Len(rows) : show_image(r)

SpecTable == Init /\ [][NextTable]_vars

NextRun ==
    \/ \E b \in Batches : AnalyzeImage(b)
    \/ \E b \in Batches : EmitProgress(b)
    \/ \E b \in Batches : Finish(b)

SpecRun == InitRun /\ [][NextRun]_vars

\* the scheduler runs every started thread, and the event loop keeps
\* delivering queued emissions
WorkerStep(b) ==
    /\ b \in Batches
    /\ (AnalyzeImage(b) \/ EmitProgress(b) \/ Finish(b))

SpecFair ==
    /\ Spec
    /\ WF_vars(HandleEvent)
    /\ \A b \in 1..MaxWork : WF_vars(WorkerStep(b))

\* ------------------------------------------------------------------------
\* Properties
\* ------------------------------------------------------------------------
IsProgress(ev) == ev.type = "update_progress"
IsRecord(ev) == ev.type = "update_table"
IsFinished(ev) == ev.type = "finished"

ProgressValues(log) ==
    LET evs == SelectSeq(log, IsProgress) IN [j \in 1..Len(evs) |-> evs[j].value]
RecordPaths(log) ==
    LET evs == SelectSeq(log, IsRecord) IN [j \in 1..Len(evs) |-> evs[j].data.file_path]

Total(b) == Len(threads[b].file_paths)
IsPrefix(s, t) == Len(s) <= Len(t) /\ SubSeq(t, 1, Len(s)) = s
Completed(b) == \E j \in 1..Len(handled[b]) : IsFinished(handled[b][j])
Opens(p) == FileSys[p].opens

\* round(k / n * 100) on the exact quotient, halves to the even neighbour
RoundPct(k, n) ==
    LET q == (100 * k) \div n
        r == (100 * k) % n
    IN  IF 2 * r > n \/ (2 * r = n /\ q % 2 = 1) THEN q + 1 ELSE q

\* C1 as stated: the k-th progress value a run over N paths emits is
\* round(k / N * 100).
C1_RoundedProgress ==
    \A b \in Batches :
        LET vals == ProgressValues(emitted[b])
        IN  \A k \in 1..Len(vals) : vals[k] = RoundPct(k, Total(b))

\* C1 amended: a run over N >= 1 paths emits one progress value per path, in
\* order; the k-th is int(k / N * 100), the double product truncated: it is
\* floor(100 k / N), except that where 100 k / N is an integer m below 100
\* and N >= 50 the double product can fall just under m and give m - 1; the
\* last value is 100, and for N = 1 the single value is 100.
C1_TruncatedProgress ==
    \A b \in Batches :
        LET vals == ProgressValues(emitted[b])
            n    == Total(b)
        IN  /\ Len(vals) = threads[b].i
            /\ threads[b].pc \in {"finish", "done"} => Len(vals) = n
            /\ \A k \in 1..Len(vals) :
                  LET m == (100 * k) \div n
                  IN  \/ vals[k] = m
                      \/ /\ n >= 50
                         /\ k < n
                         /\ (100 * k) % n = 0
                         /\ vals[k] = m - 1
            /\ Len(vals) = n => vals[n] = 100

C1_Witness ==
    \E b \in Batches :
        /\ threads[b].pc = "done"
        /\ ProgressValues(emitted[b]) = <<33, 66, 100>>

\* C2: within one batch the records are emitted in the order of their paths
\* in the input list, and the GUI thread handles the emissions of the batch
\* in the order they were emitted.
C2_RecordsInInputOrder ==
    \A b \in Batches :
        LET recs == RecordPaths(emitted[b])
            pos(p) == CHOOSE j \in 1..Total(b) : threads[b].file_paths[j] = p
        IN  /\ \A j \in 1..Len(recs) : \E h \in 1..Total(b) : threads[b].file_paths[h] = recs[j]
            /\ \A j, k \in 1..Len(recs) : j < k => pos(recs[j]) < pos(recs[k])
            /\ IsPrefix(handled[b], emitted[b])

C2_Witness ==
    \E b \in Batches :
        /\ Len(RecordPaths(handled[b])) = 2
        /\ RecordPaths(handled[b]) = SelectSeq(threads[b].file_paths, Opens)

\* C3: the progress values of a batch never decrease, every value before the
\* last path's is below 100, and the last path's value is 100.
C3_ProgressMonotoneTo100 ==
    \A b \in Batches :
        LET vals == ProgressValues(emitted[b])
            n    == Total(b)
        IN  /\ \A j, k \in 1..Len(vals) : j <= k => vals[j] <= vals[k]
            /\ \A k \in 1..Len(vals) : k < n => vals[k] < 100
            /\ threads[b].pc \in {"finish", "done"} =>
                  /\ Len(vals) = n
                  /\ n >= 1 => vals[n] = 100

C3_Witness ==
    \E b \in Batches :
        LET vals == ProgressValues(emitted[b])
        IN  /\ threads[b].pc = "done"
            /\ Total(b) = MaxRunLen
            /\ vals[MaxRunLen - 1] < 100
            /\ vals[MaxRunLen] = 100

C5_BatchRunsToCompletion ==
    \A b \in Batches :
        LET t == threads[b] IN
        /\ t.i <= Total(b)
        /\ Len(ProgressValues(emitted[b])) = t.i
        /\ Len(RecordPaths(emitted[b])) <= t.i + (IF t.pc = "progress" THEN 1 ELSE 0)
        /\ t.pc \in {"finish", "done"} => t.i = Total(b)
        /\ t.pc \in {"analyze", "progress"} => t.i < Total(b)
        /\ t.pc # "done" => ENABLED (AnalyzeImage(b) \/ EmitProgress(b) \/ Finish(b))

C5_Witness ==
    \E b \in Batches :
        /\ threads[b].pc = "done"
        /\ Total(b) = 2
        /\ ~Opens(threads[b].file_paths[1])
        /\ Opens(threads[b].file_paths[2])
        /\ Len(ProgressValues(emitted[b])) = 2
        /\ Len(RecordPaths(emitted[b])) = 1

C6_Safety ==
    \A b \in Batches :
        LET fin == SelectSeq(emitted[b], IsFinished)
            n   == Len(emitted[b])
        IN  /\ Len(fin) = (IF threads[b].pc = "done" THEN 1 ELSE 0)
            /\ Len(fin) = 1 =>
                  /\ IsFinished(emitted[b][n])
                  /\ Total(b) >= 1 => IsProgress(emitted[b][n - 1])
                  /\ Total(b) = 0 => n = 1
            /\ IsPrefix(handled[b], emitted[b])
            /\ Completed(b) => handled[b] = emitted[b]
            /\ Completed(b) => threads[b].pc = "done"

\* C6: every started batch signals completion once, as an event of its own
\* after the last progress emission; the GUI thread handles it after all the
\* records and progress values of that batch, and it does handle it
\* eventually - also for an empty list, which emits no progress value.
C6_CompletionSignalled ==
    /\ []C6_Safety
    /\ \A b \in 1..MaxWork : (b \in Batches) ~> (b \in Batches /\ Completed(b))

C6_Witness ==
    \E b, c \in Batches :
        /\ Total(b) = 0
        /\ Completed(b)
        /\ Total(c) >= 1
        /\ Completed(c)
        /\ ~progressVisible

\* C7 as stated: at most one background batch is running at any time.
C7_AtMostOneActiveBatch ==
    Cardinality({b \in Batches : threads[b].pc # "done"}) <= 1

\* C8 as stated: every row of the table shows the fields of one record, the
\* row-to-path map takes the row's index to that record's path, and a
\* preview shows the image of the row it reports.
C8_RowResolvesToItsPath ==
    /\ \A r \in 1..Len(rows) :
          /\ rows[r].rest.b # 0
          /\ rows[r].rest.b = rows[r].c0.b
          /\ rows[r].rest.rec.file_path = rows[r].c0.rec.file_path
          /\ r <= Len(file_paths)
          /\ file_paths[r] = rows[r].c0.rec.file_path
    /\ preview.image # -1
    /\ preview.image # 0 =>
          /\ preview.image = preview.report.c0.rec.file_path
          /\ preview.image = preview.report.rest.rec.file_path

C10_OnlyCurrentBatchApplied ==
    Len(threads) >= 1 =>
        LET cur == Len(threads) IN
        /\ \A r \in 1..Len(rows) :
              /\ rows[r].c0.b = cur
              /\ rows[r].rest.b \in {0, cur}
        /\ \A r \in 1..Len(file_paths) :
              \E j \in 1..Total(cur) : threads[cur].file_paths[j] = file_paths[r]
        /\ ~Completed(cur) => progressVisible

====
